---- MODULE Spec2Model ----
(***************************************************************************)
(* Model of latest.py: the reconciliation of a product's release cycles    *)
(* (ReleaseCycle, Product, update_product) with a feed of observed         *)
(* (version, date) pairs.                                                   *)
(*                                                                         *)
(* Strings are sequences of one-character strings, so that prefixes, the    *)
(* character after a prefix and the version grammar are computed and not   *)
(* assumed.  A dict is a function whose DOMAIN is its key set; dict.get is *)
(* a test of the key followed by the lookup.  A datetime.date is its       *)
(* proleptic Gregorian ordinal (date.toordinal()).                         *)
(***************************************************************************)
EXTENDS Integers, Sequences, FiniteSets, TLC

VARIABLES
    releases,            \* Product.releases: the ordered list of ReleaseCycle objects
    versions,            \* Product.versions: the feed, version string -> date string
    updated,             \* Product.updated
    unmatched_versions,  \* Product.unmatched_versions: version string -> date
    pc,                  \* position of the driver (update_product) or of the harness
    todo,                \* feed keys the loop of update_product has not reached yet
    loaded,              \* history: the cycle records as loaded (data of each cycle)
    written,             \* history: the records handed to Product.write, in order
    output,              \* history: the lines given to output.println
    log,                 \* history: whether check_latest has run and the cycles it has logged
    feed,                \* the feed file of the product: whether it exists and its entries
    today,               \* the current UTC date of the run
    call,                \* history: the last method call, its arguments and the state before it
    calls,               \* history: the update_with calls made so far, <<version, date>> each
    product_names        \* the products the loop of the main program has not reached yet

vars == <<releases, versions, updated, unmatched_versions, pc, todo, loaded,
          written, output, log, feed, today, call, calls, product_names>>

----------------------------------------------------------------------------
(* Strings *)

Digits == {"0", "1", "2", "3", "4", "5", "6", "7", "8", "9"}

Letters == {"a", "b", "c", "d", "e", "f", "g", "h", "i", "j", "k", "l", "m",
            "n", "o", "p", "q", "r", "s", "t", "u", "v", "w", "x", "y", "z"}

\* str.isalpha() of one character (over the characters of the model)
isalpha(c) == c \in Letters

\* str.startswith
startswith(s, prefix) ==
    /\ Len(prefix) <= Len(s)
    /\ SubSeq(s, 1, Len(prefix)) = prefix

\* s[i:i+len(lit)] == lit, with i a 1-based position
LitAt(s, i, lit) ==
    /\ i + Len(lit) - 1 <= Len(s)
    /\ SubSeq(s, i, i + Len(lit) - 1) = lit

\* s[i], or the empty string past the end
CharAt(s, i) == IF i >= 1 /\ i <= Len(s) THEN s[i] ELSE ""

----------------------------------------------------------------------------
(* packaging.version.Version, as used by __update_latest:                  *)
(* Version(s) parses s with VERSION_PATTERN (PEP 440) or raises            *)
(* InvalidVersion, and versions compare by their key (epoch, release       *)
(* without trailing zeros, pre, post, dev, local).  Strings are lower case *)
(* and carry no surrounding blanks, which the pattern would fold or strip. *)

Separators == {"-", "_", "."}

DigitVal(c) ==
    CASE c = "0" -> 0 [] c = "1" -> 1 [] c = "2" -> 2 [] c = "3" -> 3
      [] c = "4" -> 4 [] c = "5" -> 5 [] c = "6" -> 6 [] c = "7" -> 7
      [] c = "8" -> 8 [] c = "9" -> 9

\* the position after the longest run of digits of s that starts at i: [0-9]*
RECURSIVE ScanDigits(_, _)
ScanDigits(s, i) ==
    IF CharAt(s, i) \in Digits THEN ScanDigits(s, i + 1) ELSE i

\* int(s[i:j]) for a run of digits
RECURSIVE NumVal(_, _, _)
NumVal(s, i, j) ==
    IF j <= i THEN 0 ELSE NumVal(s, i, j - 1) * 10 + DigitVal(s[j - 1])

\* the position after an optional separator: [-_\.]?
SkipSep(s, i) == IF CharAt(s, i) \in Separators THEN i + 1 ELSE i

\* the value of an optional number at i: N if digits are there, 0 otherwise
OptNum(s, i) == NumVal(s, i, ScanDigits(s, i))

\* (?:\.[0-9]+)* after the first release segment: [end |-> position, rel |-> numbers]
RECURSIVE ScanRelease(_, _, _)
ScanRelease(s, i, rel) ==
    IF CharAt(s, i) = "." /\ CharAt(s, i + 1) \in Digits
    THEN LET j == ScanDigits(s, i + 1)
         IN  ScanRelease(s, j, Append(rel, NumVal(s, i + 1, j)))
    ELSE [end |-> i, rel |-> rel]

\* the spellings of a pre-release, post-release and dev-release tag and what
\* each is normalised to (_parse_letter_version); rank orders "a" < "b" < "rc"
PreTags ==
    { [lit |-> <<"a", "l", "p", "h", "a">>, rank |-> 0],
      [lit |-> <<"a">>, rank |-> 0],
      [lit |-> <<"b", "e", "t", "a">>, rank |-> 1],
      [lit |-> <<"b">>, rank |-> 1],
      [lit |-> <<"p", "r", "e", "v", "i", "e", "w">>, rank |-> 2],
      [lit |-> <<"p", "r", "e">>, rank |-> 2],
      [lit |-> <<"r", "c">>, rank |-> 2],
      [lit |-> <<"c">>, rank |-> 2] }

PostTags ==
    { [lit |-> <<"p", "o", "s", "t">>, rank |-> 0],
      [lit |-> <<"r", "e", "v">>, rank |-> 0],
      [lit |-> <<"r">>, rank |-> 0] }

DevTags == { [lit |-> <<"d", "e", "v">>, rank |-> 0] }

\* the tag of `tags` spelled at i; of two that match (one a prefix of the
\* other) only the longer can be followed by the rest of the pattern
TagsAt(s, i, tags) == { t \in tags : LitAt(s, i, t.lit) }

LongestTag(ts) == CHOOSE t \in ts : \A u \in ts : Len(u.lit) <= Len(t.lit)

\* [-_\.]? tag [-_\.]? [0-9]*  at i:
\* [found, end, rank, n]; not found leaves the position where it was
ScanTagged(s, i, tags) ==
    LET k  == SkipSep(s, i)
        ts == TagsAt(s, k, tags)
    IN  IF ts = {}
        THEN [found |-> FALSE, end |-> i, rank |-> 0, n |-> 0]
        ELSE LET t == LongestTag(ts)
                 a == SkipSep(s, k + Len(t.lit))
             IN  [found |-> TRUE, end |-> ScanDigits(s, a), rank |-> t.rank,
                  n |-> OptNum(s, a)]

\* the post release: -N, or a tagged one
ScanPost(s, i) ==
    IF CharAt(s, i) = "-" /\ CharAt(s, i + 1) \in Digits
    THEN [found |-> TRUE, end |-> ScanDigits(s, i + 1), rank |-> 0,
          n |-> OptNum(s, i + 1)]
    ELSE ScanTagged(s, i, PostTags)

\* the position after [a-z0-9]* at i
RECURSIVE ScanAlnum(_, _)
ScanAlnum(s, i) ==
    IF CharAt(s, i) \in Digits \cup Letters THEN ScanAlnum(s, i + 1) ELSE i

\* [a-z0-9]+(?:[-_\.][a-z0-9]+)* from i to the end of s:
\* [ok, segs], segs the segments between separators
RECURSIVE ScanLocal(_, _, _)
ScanLocal(s, i, segs) ==
    LET j == ScanAlnum(s, i)
    IN  IF j = i THEN [ok |-> FALSE, segs |-> <<>>]
        ELSE IF j = Len(s) + 1
        THEN [ok |-> TRUE, segs |-> Append(segs, SubSeq(s, i, j - 1))]
        ELSE IF s[j] \in Separators
        THEN ScanLocal(s, j + 1, Append(segs, SubSeq(s, i, j - 1)))
        ELSE [ok |-> FALSE, segs |-> <<>>]

\* _parse_local_version: a segment of digits is a number, any other a string
LocalPart(seg) ==
    IF \A k \in 1..Len(seg) : seg[k] \in Digits
    THEN [num |-> TRUE, n |-> NumVal(seg, 1, Len(seg) + 1), str |-> <<>>]
    ELSE [num |-> FALSE, n |-> 0, str |-> seg]

\* _cmpkey: the release without its trailing zeros
RECURSIVE StripZeros(_)
StripZeros(rel) ==
    IF Len(rel) > 0 /\ rel[Len(rel)] = 0
    THEN StripZeros(SubSeq(rel, 1, Len(rel) - 1))
    ELSE rel

InvalidVersion == [valid |-> FALSE]

\* The groups of VERSION_PATTERN are matched one after the other, each from
\* where the one before it ended; each operator below matches one group and
\* hands what was matched so far to the next.

\* the end of the pattern: the whole string must have been matched
VersionEnd(s, epoch, rel, pre, post, dev, hasLocal, loc) ==
    IF ~loc.ok THEN InvalidVersion
    ELSE [valid |-> TRUE,
          epoch |-> epoch,
          release |-> rel.rel,
          pre |-> [found |-> pre.found, rank |-> pre.rank, n |-> pre.n],
          post |-> [found |-> post.found, n |-> post.n],
          dev |-> [found |-> dev.found, n |-> dev.n],
          hasLocal |-> hasLocal,
          local |-> [k \in 1..Len(loc.segs) |-> LocalPart(loc.segs[k])]]

\* (?:\+(?P<local>...))?
VersionLocal(s, epoch, rel, pre, post, dev) ==
    VersionEnd(s, epoch, rel, pre, post, dev, CharAt(s, dev.end) = "+",
               IF CharAt(s, dev.end) = "+"
               THEN ScanLocal(s, dev.end + 1, <<>>)
               ELSE [ok |-> dev.end = Len(s) + 1, segs |-> <<>>])

\* (?P<dev>...)?
VersionDev(s, epoch, rel, pre, post) ==
    VersionLocal(s, epoch, rel, pre, post, ScanTagged(s, post.end, DevTags))

\* (?P<post>...)?
VersionPost(s, epoch, rel, pre) ==
    VersionDev(s, epoch, rel, pre, ScanPost(s, pre.end))

\* (?P<pre>...)?
VersionPre(s, epoch, rel) ==
    VersionPost(s, epoch, rel, ScanTagged(s, rel.end, PreTags))

\* (?P<release>[0-9]+(?:\.[0-9]+)*), from p1; r1 is the end of its first number
VersionRelease(s, epoch, p1, r1) ==
    IF r1 = p1 THEN InvalidVersion
    ELSE VersionPre(s, epoch, ScanRelease(s, r1, <<NumVal(s, p1, r1)>>))

\* (?:(?P<epoch>[0-9]+)!)?, from p0; e is the end of the digits at p0
VersionEpoch(s, p0, e) ==
    IF e > p0 /\ CharAt(s, e) = "!"
    THEN VersionRelease(s, NumVal(s, p0, e), e + 1, ScanDigits(s, e + 1))
    ELSE VersionRelease(s, 0, p0, e)

\* v?, then the rest
VersionPrefix(s, p0) == VersionEpoch(s, p0, ScanDigits(s, p0))

\* Version(s): [valid |-> FALSE] where the constructor raises InvalidVersion,
\* else the fields of the parsed version
Version(s) == VersionPrefix(s, IF CharAt(s, 1) = "v" THEN 2 ELSE 1)

\* ord(c) of a digit or a lower-case letter
CodeOrder ==
    <<"0", "1", "2", "3", "4", "5", "6", "7", "8", "9",
      "a", "b", "c", "d", "e", "f", "g", "h", "i", "j", "k", "l", "m",
      "n", "o", "p", "q", "r", "s", "t", "u", "v", "w", "x", "y", "z">>

CharCode(c) ==
    LET k == CHOOSE i \in 1..Len(CodeOrder) : CodeOrder[i] = c
    IN  IF k <= 10 THEN 47 + k ELSE 86 + k

IntCmp(a, b) == IF a < b THEN -1 ELSE IF a > b THEN 1 ELSE 0

\* the comparison of two tuples of integers: the first difference decides,
\* and a proper prefix is the smaller one
RECURSIVE TupleCmp(_, _, _)
TupleCmp(a, b, i) ==
    IF i > Len(a) /\ i > Len(b) THEN 0
    ELSE IF i > Len(a) THEN -1
    ELSE IF i > Len(b) THEN 1
    ELSE IF a[i] # b[i] THEN IntCmp(a[i], b[i])
    ELSE TupleCmp(a, b, i + 1)

StrCodes(str) == [k \in 1..Len(str) |-> CharCode(str[k])]

\* two parts of a local version: (n, "") for a number, (-Infinity, s) for a string
LocalPartCmp(x, y) ==
    IF x.num /\ y.num THEN IntCmp(x.n, y.n)
    ELSE IF x.num THEN 1
    ELSE IF y.num THEN -1
    ELSE TupleCmp(StrCodes(x.str), StrCodes(y.str), 1)

RECURSIVE LocalCmp(_, _, _)
LocalCmp(a, b, i) ==
    IF i > Len(a) /\ i > Len(b) THEN 0
    ELSE IF i > Len(a) THEN -1
    ELSE IF i > Len(b) THEN 1
    ELSE IF LocalPartCmp(a[i], b[i]) # 0 THEN LocalPartCmp(a[i], b[i])
    ELSE LocalCmp(a, b, i + 1)

\* _cmpkey: the pre, post and dev parts of the key as tuples of integers.
\* No pre-release sorts after every pre-release (Infinity), except for a bare
\* dev release, which sorts before them (-Infinity); no post release sorts
\* first (-Infinity); no dev release sorts last (Infinity).
PreKey(v) ==
    IF v.pre.found THEN <<v.pre.rank, v.pre.n>>
    ELSE IF ~v.post.found /\ v.dev.found THEN <<-1, 0>>
    ELSE <<3, 0>>

PostKey(v) == IF v.post.found THEN <<1, v.post.n>> ELSE <<0, 0>>

DevKey(v) == IF v.dev.found THEN <<0, v.dev.n>> ELSE <<1, 0>>

\* the comparison of the keys of two parsed versions: -1, 0 or 1
KeyCmp(a, b) ==
    LET c1 == IntCmp(a.epoch, b.epoch)
        c2 == TupleCmp(StripZeros(a.release), StripZeros(b.release), 1)
        c3 == TupleCmp(PreKey(a), PreKey(b), 1)
        c4 == TupleCmp(PostKey(a), PostKey(b), 1)
        c5 == TupleCmp(DevKey(a), DevKey(b), 1)
        c6 == IF ~a.hasLocal /\ ~b.hasLocal THEN 0
              ELSE IF ~a.hasLocal THEN -1
              ELSE IF ~b.hasLocal THEN 1
              ELSE LocalCmp(a.local, b.local, 1)
    IN  IF c1 # 0 THEN c1 ELSE IF c2 # 0 THEN c2 ELSE IF c3 # 0 THEN c3
        ELSE IF c4 # 0 THEN c4 ELSE IF c5 # 0 THEN c5 ELSE c6

\* a < b for two parsed versions
VersionLess(a, b) == KeyCmp(a, b) < 0

----------------------------------------------------------------------------
(* datetime.date *)

is_leap(y) == y % 4 = 0 /\ (y % 100 # 0 \/ y % 400 = 0)

days_in_month(y, m) ==
    IF m = 2 THEN (IF is_leap(y) THEN 29 ELSE 28)
    ELSE IF m \in {4, 6, 9, 11} THEN 30 ELSE 31

RECURSIVE days_before_month(_, _)
days_before_month(y, m) ==
    IF m <= 1 THEN 0 ELSE days_before_month(y, m - 1) + days_in_month(y, m - 1)

days_before_year(y) ==
    ((y - 1) * 365 + (y - 1) \div 4 - (y - 1) \div 100) + (y - 1) \div 400

\* date(y, m, d).toordinal()
ymd2ord(y, m, d) == days_before_year(y) + days_before_month(y, m) + d

\* datetime.date.fromisoformat(date_str) for the format YYYY-MM-DD:
\* [ok |-> FALSE] where it raises ValueError, else the date
fromisoformat(date_str) ==
    IF \/ Len(date_str) # 10
       \/ date_str[5] # "-"
       \/ date_str[8] # "-"
       \/ \E k \in {1, 2, 3, 4, 6, 7, 9, 10} : date_str[k] \notin Digits
    THEN [ok |-> FALSE, date |-> 0]
    ELSE LET y == NumVal(date_str, 1, 5)
             m == NumVal(date_str, 6, 8)
             d == NumVal(date_str, 9, 11)
         IN  IF y < 1 \/ m < 1 \/ m > 12 \/ d < 1 \/ d > days_in_month(y, m)
             THEN [ok |-> FALSE, date |-> 0]
             ELSE [ok |-> TRUE, date |-> ymd2ord(y, m, d)]

----------------------------------------------------------------------------
(* dict *)

Has(d, k) == k \in DOMAIN d

\* d[k] = v
Put(d, k, v) == [x \in DOMAIN d \cup {k} |-> IF x = k THEN v ELSE d[x]]

----------------------------------------------------------------------------
(* class ReleaseCycle *)

\* ReleaseCycle.__init__
ReleaseCycle(data) ==
    [data |-> data, name |-> data["releaseCycle"], matched |-> FALSE,
     updated |-> FALSE]

\* includes without the test of the character after the prefix
includes_prefix_only(self, version) == startswith(version, self.name)

\* ReleaseCycle.includes
includes(self, version) ==
    IF ~startswith(version, self.name) THEN FALSE
    ELSE IF Len(version) = Len(self.name) THEN TRUE
    ELSE LET char_after_prefix == version[Len(self.name) + 1]
         IN  \/ char_after_prefix = "."
             \/ char_after_prefix = "-"
             \/ char_after_prefix = "+"
             \/ isalpha(char_after_prefix)

\* __update_release_date with the comparison reversed: a later date replaces
update_release_date_forward(self, version, date) ==
    IF Has(self.data, "releaseDate") /\ self.data["releaseDate"] < date
    THEN [self EXCEPT !.data = Put(self.data, "releaseDate", date),
                      !.updated = TRUE]
    ELSE self

\* __update_release_date that replaces the date and does not set updated
update_release_date_silent(self, version, date) ==
    IF Has(self.data, "releaseDate") /\ self.data["releaseDate"] > date
    THEN [self EXCEPT !.data = Put(self.data, "releaseDate", date)]
    ELSE self

\* ReleaseCycle.__update_release_date
update_release_date(self, version, date) ==
    IF Has(self.data, "releaseDate") /\ self.data["releaseDate"] > date
    THEN [self EXCEPT !.data = Put(self.data, "releaseDate", date),
                      !.updated = TRUE]
    ELSE self

\* not old_latest: the key is missing or its value is the empty string
NoLatest(data) == ~Has(data, "latest") \/ data["latest"] = <<>>

\* Version(old_latest) < Version(version) inside the try: the exception the
\* expression raises ("none" when both strings parse) and its value
\* a comparison that takes a string that does not parse for the lowest version
compare_parsed_lenient(a, b) ==
    IF a.valid /\ b.valid
    THEN [raised |-> "none", less |-> VersionLess(a, b)]
    ELSE [raised |-> "none", less |-> ~a.valid]

compare_parsed(a, b) ==
    IF a.valid /\ b.valid
    THEN [raised |-> "none", less |-> VersionLess(a, b)]
    ELSE [raised |-> "InvalidVersion", less |-> FALSE]

try_compare(old_latest, version) ==
    compare_parsed(Version(old_latest), Version(version))

\* a handler that catches another exception than the one raised
caught_value_error(exception) == exception = "ValueError"

\* except InvalidVersion: the exceptions the handler catches
caught(exception) == exception = "InvalidVersion"

\* a <= b for two versions, FALSE when one of them did not parse
less_or_equal(a, b) == a.valid /\ b.valid /\ KeyCmp(a, b) <= 0

\* update_detected with <= for <: an equal version with another spelling wins
update_detected_or_equal(self, version, date) ==
    IF NoLatest(self.data) THEN TRUE
    ELSE IF /\ self.data["latest"] = version
            /\ (~Has(self.data, "latestReleaseDate")
                \/ self.data["latestReleaseDate"] # date)
    THEN TRUE
    ELSE /\ self.data["latest"] # version
         /\ less_or_equal(Version(self.data["latest"]), Version(version))

\* update_detected without the comparison: the last observation wins
update_detected_last_wins(self, version, date) ==
    \/ NoLatest(self.data)
    \/ self.data["latest"] # version
    \/ ~Has(self.data, "latestReleaseDate")
    \/ self.data["latestReleaseDate"] # date

\* update_detected without the test of the date: the same version is
\* detected again
update_detected_same_version(self, version, date) ==
    IF NoLatest(self.data) THEN TRUE
    ELSE IF self.data["latest"] = version THEN TRUE
    ELSE try_compare(self.data["latest"], version).less

\* update_detected without the branch for the same version with another date
update_detected_no_date_branch(self, version, date) ==
    IF NoLatest(self.data) THEN TRUE
    ELSE try_compare(self.data["latest"], version).less

\* the try statement: the comparison decides unless it raised, and then the
\* handler skips
less_if_compared(c) == IF c.raised = "none" THEN c.less ELSE FALSE

\* the exception that leaves the try statement, "none" if none does
escaping(c) ==
    IF c.raised # "none" /\ ~caught(c.raised) THEN c.raised ELSE "none"

\* update_detected of ReleaseCycle.__update_latest
update_detected(self, version, date) ==
    IF NoLatest(self.data) THEN TRUE
    ELSE IF /\ self.data["latest"] = version
            /\ (~Has(self.data, "latestReleaseDate")
                \/ self.data["latestReleaseDate"] # date)
    THEN TRUE
    ELSE less_if_compared(try_compare(self.data["latest"], version))

\* the exception that leaves ReleaseCycle.__update_latest, "none" if it returns
update_latest_raises(self, version, date) ==
    IF NoLatest(self.data) THEN "none"
    ELSE IF /\ self.data["latest"] = version
            /\ (~Has(self.data, "latestReleaseDate")
                \/ self.data["latestReleaseDate"] # date)
    THEN "none"
    ELSE escaping(try_compare(self.data["latest"], version))

\* __update_latest that records the version and forgets the date
update_latest_keeps_date(self, version, date) ==
    IF update_detected(self, version, date)
    THEN [self EXCEPT !.data = Put(self.data, "latest", version),
                      !.updated = TRUE]
    ELSE self

\* __update_latest that builds a new record of the cycle's name and the pair
update_latest_fresh_record(self, version, date) ==
    IF update_detected(self, version, date)
    THEN [self EXCEPT
            !.data = [releaseCycle |-> self.name, latest |-> version,
                      latestReleaseDate |-> date],
            !.updated = TRUE]
    ELSE self

\* ReleaseCycle.__update_latest
update_latest(self, version, date) ==
    IF update_detected(self, version, date)
    THEN [self EXCEPT
            !.data = Put(Put(self.data, "latest", version),
                         "latestReleaseDate", date),
            !.updated = TRUE]
    ELSE self

\* ReleaseCycle.update_with
update_with(self, version, date) ==
    update_latest(
        update_release_date([self EXCEPT !.matched = TRUE], version, date),
        version, date)

\* the exception that leaves ReleaseCycle.update_with, "none" if it returns
update_with_raises(self, version, date) ==
    update_latest_raises(
        update_release_date([self EXCEPT !.matched = TRUE], version, date),
        version, date)

\* ReleaseCycle.latest: [set |-> FALSE] stands for None
latest(self) ==
    IF Has(self.data, "latest")
    THEN [set |-> TRUE, value |-> self.data["latest"]]
    ELSE [set |-> FALSE, value |-> <<>>]

----------------------------------------------------------------------------
(* class Product *)

\* one turn of the loop of process_version: what it makes of a release
process_release(release, version, date) ==
    IF includes(release, version)
    THEN update_with(release, version, date)
    ELSE release

\* the turns of the loop that call update_with
matching_releases(self, version) ==
    { i \in 1..Len(self.releases) : includes(self.releases[i], version) }

\* process_version with a break after the first cycle that includes the version
process_version_first_match(self, version, date) ==
    LET first == { i \in matching_releases(self, version) :
                     \A j \in matching_releases(self, version) : i <= j }
    IN  [releases |->
            [i \in 1..Len(self.releases) |->
                IF i \in first
                THEN process_release(self.releases[i], version, date)
                ELSE self.releases[i]],
         updated |->
            \/ self.updated
            \/ \E i \in first :
                  process_release(self.releases[i], version, date).updated,
         unmatched_versions |->
            IF matching_releases(self, version) = {}
            THEN Put(self.unmatched_versions, version, date)
            ELSE self.unmatched_versions]

\* process_version with self.updated = release.updated in the loop
process_version_overwrite(self, version, date) ==
    LET last == { i \in matching_releases(self, version) :
                    \A j \in matching_releases(self, version) : j <= i }
    IN  [releases |->
            [i \in 1..Len(self.releases) |->
                process_release(self.releases[i], version, date)],
         updated |->
            IF last = {} THEN self.updated
            ELSE \E i \in last :
                    process_release(self.releases[i], version, date).updated,
         unmatched_versions |->
            IF matching_releases(self, version) = {}
            THEN Put(self.unmatched_versions, version, date)
            ELSE self.unmatched_versions]

\* Product.process_version, once date_str has been converted; self is
\* [releases, updated, unmatched_versions].  The turns of its loop do not read
\* what another turn wrote: each changes its own release, self.updated is the
\* disjunction of what the turns found, version_matched says that one of them
\* called update_with.
process_version(self, version, date) ==
    [releases |->
        [i \in 1..Len(self.releases) |->
            process_release(self.releases[i], version, date)],
     updated |->
        \/ self.updated
        \/ \E i \in matching_releases(self, version) :
              process_release(self.releases[i], version, date).updated,
     unmatched_versions |->
        IF matching_releases(self, version) = {}
        THEN Put(self.unmatched_versions, version, date)
        ELSE self.unmatched_versions]

\* key in dict, for the optional value latest() returns: None is no key
InVersions(opt, dict) == opt.set /\ opt.value \in DOMAIN dict

\* check_latest without the test of matched: every cycle is checked
check_latest_all(self_releases, self_versions) ==
    { <<self_releases[i].name, latest(self_releases[i])>> :
        i \in { j \in 1..Len(self_releases) :
                  ~InVersions(latest(self_releases[j]), self_versions) } }

\* Product.check_latest: the cycles it logs, each with its latest()
check_latest(self_releases, self_versions) ==
    { <<self_releases[i].name, latest(self_releases[i])>> :
        i \in { j \in 1..Len(self_releases) :
                  /\ self_releases[j].matched
                  /\ ~InVersions(latest(self_releases[j]), self_versions) } }

\* Product.write: the cycles dumped to the product file (self.data["releases"],
\* the dicts the ReleaseCycle objects hold and change in place)
write(self_releases) == [i \in 1..Len(self_releases) |-> self_releases[i].data]

\* the threshold of update_product: released in the last 30 days
RecencyDays == 30

\* the report without the filter: every unmatched version
recent_unmatched_unfiltered(unmatched, now) ==
    { <<version, unmatched[version]>> : version \in DOMAIN unmatched }

\* the report with <= for <: a version released 30 days ago is reported
recent_unmatched_inclusive(unmatched, now) ==
    { <<version, unmatched[version]>> :
        version \in { v \in DOMAIN unmatched : now - unmatched[v] <= RecencyDays } }

\* update_product: the unmatched versions it reports
recent_unmatched(unmatched, now) ==
    { <<version, unmatched[version]>> :
        version \in { v \in DOMAIN unmatched : now - unmatched[v] < RecencyDays } }

----------------------------------------------------------------------------
(* Bounds and inputs *)

\* the longest version string given to includes
MaxLen == 4

\* the longest cycle name given to includes
MaxName == 2

\* the number of update_with calls made on one cycle
MaxCalls == 3

\* the number of entries of a feed
MaxFeed == 2

\* the strings over `alphabet` of at most n characters
StringsUpTo(alphabet, n) == UNION { [1..k -> alphabet] : k \in 0..n }

\* characters of the versions given to includes: a digit, the three accepted
\* separators, a letter, and a character that is none of these
IncludesAlphabet == {"1", ".", "-", "+", "r", "_"}

NameAlphabet == {"1", "."}

IncludesNames == StringsUpTo(NameAlphabet, MaxName) \cup {<<"4", ".", "1">>}

IncludesVersions ==
    StringsUpTo(IncludesAlphabet, MaxLen)
    \cup { <<"4", ".", "1">>, <<"4", ".", "1", ".", "2">>,
           <<"4", ".", "1", "-", "f", "i", "n", "a", "l">>,
           <<"4", ".", "1", "r">>, <<"4", ".", "1", "0">>,
           <<"4", ".", "1", "0", ".", "2">>, <<"4", ".", "2">> }

NoCall == [op |-> "none"]

----------------------------------------------------------------------------
(* Specification of ReleaseCycle.includes: a cycle of any name is asked    *)
(* about any version.                                                      *)

InitIncludes ==
    /\ \E n \in IncludesNames :
         /\ loaded = <<[releaseCycle |-> n]>>
         /\ releases = <<ReleaseCycle([releaseCycle |-> n])>>
    /\ versions = <<>>
    /\ updated = FALSE
    /\ unmatched_versions = <<>>
    /\ pc = "cycle"
    /\ todo = {}
    /\ written = <<>>
    /\ output = {}
    /\ log = [checked |-> FALSE, lines |-> {}]
    /\ feed = [exists |-> FALSE, entries |-> <<>>]
    /\ today = 0
    /\ call = NoCall
    /\ calls = <<>>
    /\ product_names = <<>>

CallIncludes ==
    /\ pc = "cycle"
    /\ \E version \in IncludesVersions :
         call' = [op |-> "includes", version |-> version,
                  ret |-> includes(releases[1], version)]
    /\ pc' = "returned"
    /\ UNCHANGED <<releases, versions, updated, unmatched_versions, todo,
                   loaded, written, output, log, feed, today, calls, product_names>>

NextIncludes == CallIncludes

SpecIncludes == InitIncludes /\ [][NextIncludes]_vars

\* the name is a literal prefix of the version, stated character by character
IsLiteralPrefix(name, version) ==
    /\ Len(name) <= Len(version)
    /\ \A k \in 1..Len(name) : version[k] = name[k]

\* C1: includes(version) is true exactly when the cycle name is a literal
\* prefix of version and either both have the same length or the character
\* right after the prefix is '.', '-', '+' or alphabetic; and for cycle "4.1"
\* the versions 4.1, 4.1.2, 4.1-final, 4.1r are included and 4.10, 4.10.2,
\* 4.2 are not.
C1_IncludesBoundary ==
    call.op = "includes" =>
        LET name == releases[1].name
            version == call.version
        IN  /\ call.ret =
                 /\ IsLiteralPrefix(name, version)
                 /\ \/ Len(version) = Len(name)
                    \/ version[Len(name) + 1] \in {".", "-", "+"} \cup Letters
            /\ name = <<"4", ".", "1">> =>
                 /\ version \in { <<"4", ".", "1">>, <<"4", ".", "1", ".", "2">>,
                                  <<"4", ".", "1", "-", "f", "i", "n", "a", "l">>,
                                  <<"4", ".", "1", "r">> } => call.ret
                 /\ version \in { <<"4", ".", "1", "0">>,
                                  <<"4", ".", "1", "0", ".", "2">>,
                                  <<"4", ".", "2">> } => ~call.ret

\* C1 witness: cycle "4.1" has been asked about "4.10" and has rejected it
C1_Witness ==
    /\ call.op = "includes"
    /\ releases[1].name = <<"4", ".", "1">>
    /\ call.version = <<"4", ".", "1", "0">>
    /\ call.ret = FALSE

----------------------------------------------------------------------------
(* Specification of one ReleaseCycle under update_with: a cycle built from *)
(* any record receives any sequence of observations.                       *)

v1_0 == <<"1", ".", "0">>
v1_0_0 == <<"1", ".", "0", ".", "0">>
v1_1 == <<"1", ".", "1">>
v1_10 == <<"1", ".", "1", "0">>
v1_1_x == <<"1", ".", "1", "-", "x">>
v1_x == <<"1", ".", "x">>

\* the versions given to update_with: 1.0 < 1.1 < 1.10 in version order,
\* 1.0.0 equal to 1.0 with another spelling, 1.1-x not a version; 1.x, not a
\* version either, is the latest of a loaded record
CycleVersions == {v1_0, v1_0_0, v1_1, v1_10, v1_1_x}

d2024_05_01 == <<"2", "0", "2", "4", "-", "0", "5", "-", "0", "1">>
d2024_06_01 == <<"2", "0", "2", "4", "-", "0", "6", "-", "0", "1">>
d2024_06_15 == <<"2", "0", "2", "4", "-", "0", "6", "-", "1", "5">>

\* the dates given to update_with: one before and one after the release date
\* of the records below
CycleDates == { fromisoformat(str).date : str \in {d2024_05_01, d2024_06_15} }

\* an optional value is <<>> (absent) or <<value>>
OptPut(d, k, opt) == IF opt = <<>> THEN d ELSE Put(d, k, opt[1])

OptGet(d, k) == IF Has(d, k) THEN <<d[k]>> ELSE <<>>

\* a cycle of the product file: releaseCycle, the three optional fields the
\* program maintains, and one field it does not know (eol)
CycleRecord(name, releaseDate, latestVersion, latestReleaseDate) ==
    OptPut(OptPut(OptPut([releaseCycle |-> name, eol |-> FALSE],
                         "releaseDate", releaseDate),
                  "latest", latestVersion),
           "latestReleaseDate", latestReleaseDate)

\* the records a cycle is built from
CycleRecords ==
    { CycleRecord(<<"1">>, rd, l[1], l[2]) :
        rd \in {<<>>, <<fromisoformat(d2024_06_01).date>>},
        l \in { <<<<>>, <<>>>>,
                <<<<v1_1>>, <<fromisoformat(d2024_06_15).date>>>>,
                <<<<v1_1>>, <<>>>>,
                <<<<v1_1_x>>, <<fromisoformat(d2024_05_01).date>>>>,
                <<<<v1_x>>, <<fromisoformat(d2024_05_01).date>>>> } }

InitCycle ==
    /\ \E data \in CycleRecords :
         /\ loaded = <<data>>
         /\ releases = <<ReleaseCycle(data)>>
    /\ versions = <<>>
    /\ updated = FALSE
    /\ unmatched_versions = <<>>
    /\ pc = "cycle"
    /\ todo = {}
    /\ written = <<>>
    /\ output = {}
    /\ log = [checked |-> FALSE, lines |-> {}]
    /\ feed = [exists |-> FALSE, entries |-> <<>>]
    /\ today = 0
    /\ call = NoCall
    /\ calls = <<>>
    /\ product_names = <<>>

\* one call of update_with on the cycle
CallUpdateWith ==
    /\ pc = "cycle"
    /\ Len(calls) < MaxCalls
    /\ \E version \in CycleVersions, date \in CycleDates :
         /\ releases' = [releases EXCEPT ![1] = update_with(@, version, date)]
         /\ call' = [op |-> "update_with", version |-> version, date |-> date,
                     before |-> releases[1],
                     detected |->
                        update_with([releases[1] EXCEPT !.updated = FALSE],
                                    version, date).updated,
                     raised |-> update_with_raises(releases[1], version, date)]
         /\ calls' = Append(calls, <<version, date>>)
    /\ UNCHANGED <<versions, updated, unmatched_versions, pc, todo, loaded,
                   written, output, log, feed, today, product_names>>

NextCycle == CallUpdateWith

SpecCycle == InitCycle /\ [][NextCycle]_vars

\* the outcome of the spec's VersionComparator on (a, b)
Compare(a, b) ==
    IF ~Version(a).valid \/ ~Version(b).valid THEN "INCOMPARABLE"
    ELSE IF KeyCmp(Version(a), Version(b)) < 0 THEN "LESS"
    ELSE IF KeyCmp(Version(a), Version(b)) > 0 THEN "GREATER"
    ELSE "EQUAL"

\* the recorded latest version and its date, each absent or present
LatestPair(data) == <<OptGet(data, "latest"), OptGet(data, "latestReleaseDate")>>

\* C2: the latest-version selection of update_with(version, date):
\* (a) no latest recorded: latest and latestReleaseDate become (version, date);
\* (b) else the recorded latest equals version and the recorded date differs:
\*     only latestReleaseDate becomes date;
\* (c) else the pair is adopted iff version compares GREATER than the recorded
\*     latest, and is left unchanged on LESS, EQUAL or INCOMPARABLE.
\* Every adoption sets the cycle's updated flag.
C2_LatestSelection ==
    call.op = "update_with" =>
        LET old == call.before.data
            new == releases[1].data
            adopted == LatestPair(new) = <<<<call.version>>, <<call.date>>>>
        IN  IF ~Has(old, "latest")
            THEN adopted /\ releases[1].updated
            ELSE IF /\ old["latest"] = call.version
                    /\ OptGet(old, "latestReleaseDate") # <<call.date>>
            THEN /\ new["latest"] = old["latest"]
                 /\ OptGet(new, "latestReleaseDate") = <<call.date>>
                 /\ releases[1].updated
            ELSE IF Compare(call.version, old["latest"]) = "GREATER"
            THEN adopted /\ releases[1].updated
            ELSE LatestPair(new) = LatestPair(old)

\* C2 witness: the recorded latest 1.1 was replaced by the greater 1.10, and
\* before that an observation that does not compare was left aside
C2_Witness ==
    /\ call.op = "update_with"
    /\ Len(calls) = 2
    /\ calls[1][1] = v1_1_x
    /\ OptGet(call.before.data, "latest") = <<v1_1>>
    /\ call.version = v1_10
    /\ releases[1].data["latest"] = v1_10
    /\ releases[1].updated

\* the versions applied so far, and the date supplied last with each
AppliedVersions == { calls[k][1] : k \in 1..Len(calls) }

LastCallWith(version) ==
    CHOOSE k \in 1..Len(calls) :
        /\ calls[k][1] = version
        /\ \A j \in (k + 1)..Len(calls) : calls[j][1] # version

\* version strings that all parse and are pairwise strictly ordered
StrictlyOrdered(vs) ==
    /\ \A a \in vs : Version(a).valid
    /\ \A a, b \in vs : a # b => Compare(a, b) \in {"LESS", "GREATER"}

Highest(vs) == CHOOSE a \in vs : \A b \in vs : a = b \/ Compare(a, b) = "GREATER"

\* C3: for versions that are pairwise comparable and strictly ordered (each
\* applied once, the recorded latest comparable with them as well), whatever
\* the order of the update_with calls, latest() is the highest version applied,
\* with the date supplied with it, or the initially recorded latest if that is
\* higher; applied in increasing order it is the last one, in decreasing order
\* the first one.
C3_MonotonicLatest ==
    LET initial == OptGet(loaded[1], "latest")
        all == AppliedVersions \cup { initial[k] : k \in 1..Len(initial) }
        n == Len(calls)
    IN  ( /\ pc = "cycle"
          /\ n > 0
          /\ Cardinality(AppliedVersions) = n
          /\ StrictlyOrdered(all) ) =>
            LET top == Highest(AppliedVersions)
                keepsInitial == initial # <<>> /\ Compare(initial[1], top) = "GREATER"
            IN  /\ IF keepsInitial
                   THEN LatestPair(releases[1].data) = LatestPair(loaded[1])
                   ELSE LatestPair(releases[1].data) =
                            <<<<top>>, <<calls[LastCallWith(top)][2]>>>>
                /\ ( /\ ~keepsInitial
                     /\ \A k \in 1..(n - 1) :
                            Compare(calls[k][1], calls[k + 1][1]) = "LESS" )
                   => latest(releases[1]) = [set |-> TRUE, value |-> calls[n][1]]
                /\ ( /\ ~keepsInitial
                     /\ \A k \in 1..(n - 1) :
                            Compare(calls[k][1], calls[k + 1][1]) = "GREATER" )
                   => latest(releases[1]) = [set |-> TRUE, value |-> calls[1][1]]

\* C3 witness: 1.10, 1.0, 1.1 were applied in that order to a cycle without a
\* latest, and latest() is the highest, 1.10
C3_Witness ==
    /\ pc = "cycle"
    /\ ~Has(loaded[1], "latest")
    /\ Len(calls) = 3
    /\ <<calls[1][1], calls[2][1], calls[3][1]>> = <<v1_10, v1_0, v1_1>>
    /\ latest(releases[1]) = [set |-> TRUE, value |-> v1_10]

\* the date most recently associated with a version string: the date of the
\* last update_with call that carried it, or the loaded date if there is none
AssociatedDate(version) ==
    IF version \in AppliedVersions
    THEN <<calls[LastCallWith(version)][2]>>
    ELSE OptGet(loaded[1], "latestReleaseDate")

\* C4 as stated: in every state of a cycle, if latest is set then
\* latestReleaseDate is set, and it is the date most recently associated with
\* that version string.
C4_Original ==
    (pc = "cycle" /\ Has(releases[1].data, "latest")) =>
        /\ Has(releases[1].data, "latestReleaseDate")
        /\ OptGet(releases[1].data, "latestReleaseDate")
             = AssociatedDate(releases[1].data["latest"])

\* C4 amended: in every state of a cycle, if latest is set then
\* latestReleaseDate is the date most recently associated with that version
\* string (the date of the last update_with call carrying it, else what the
\* record was loaded with), and it is set unless the record was loaded with
\* this latest and without a date and no call has carried this version.
C4_LatestDateAssociated ==
    (pc = "cycle" /\ Has(releases[1].data, "latest")) =>
        /\ OptGet(releases[1].data, "latestReleaseDate")
             = AssociatedDate(releases[1].data["latest"])
        /\ ~Has(releases[1].data, "latestReleaseDate") =>
             /\ LatestPair(releases[1].data) = LatestPair(loaded[1])
             /\ releases[1].data["latest"] \notin AppliedVersions

\* C4 witness: the latest version was observed twice with two dates, other
\* versions in between, and carries the second date
C4_Witness ==
    /\ pc = "cycle"
    /\ Len(calls) = 3
    /\ calls[1][1] = v1_10
    /\ calls[2][1] = v1_1
    /\ calls[3][1] = v1_10
    /\ calls[1][2] # calls[3][2]
    /\ LatestPair(releases[1].data) = <<<<v1_10>>, <<calls[3][2]>>>>

\* C5: when latest is set to a version that parses, update_with with a string
\* that does not parse, and any date, changes neither latest nor
\* latestReleaseDate and raises no error.
C5_IncomparableSafety ==
    ( /\ call.op = "update_with"
      /\ Has(call.before.data, "latest")
      /\ Version(call.before.data["latest"]).valid
      /\ ~Version(call.version).valid ) =>
        /\ LatestPair(releases[1].data) = LatestPair(call.before.data)
        /\ call.raised = "none"

\* C5 witness: 1.10 was adopted, then 1.1-x was applied and changed nothing
C5_Witness ==
    /\ call.op = "update_with"
    /\ call.version = v1_1_x
    /\ OptGet(call.before.data, "latest") = <<v1_10>>
    /\ OptGet(releases[1].data, "latest") = <<v1_10>>
    /\ call.raised = "none"

\* C6: update_with(v, d) called twice in a row with the same (v, d) is a no-op
\* the second time: releaseDate, latest and latestReleaseDate do not change and
\* the repeat call detects no update (it leaves updated as it was).
C6_RepeatIsNoOp ==
    ( /\ call.op = "update_with"
      /\ Len(calls) >= 2
      /\ calls[Len(calls)] = calls[Len(calls) - 1] ) =>
        /\ releases[1].data = call.before.data
        /\ releases[1].updated = call.before.updated
        /\ ~call.detected

\* C6 witness: the same observation twice, the first of which corrected the
\* date of the recorded latest
C6_Witness ==
    /\ call.op = "update_with"
    /\ Len(calls) = 2
    /\ calls[1] = calls[2]
    /\ LatestPair(loaded[1]) = <<<<v1_1>>, <<fromisoformat(d2024_06_15).date>>>>
    /\ calls[1] = <<v1_1, fromisoformat(d2024_05_01).date>>
    /\ LatestPair(releases[1].data) = <<<<v1_1>>, <<fromisoformat(d2024_05_01).date>>>>
    /\ ~call.detected

\* the earliest of a set of dates
Earliest(dates) == CHOOSE d \in dates : \A e \in dates : d <= e

\* C7: on every update_with(version, date) a recorded releaseDate is replaced
\* by date, and updated set, iff date is strictly earlier; it never moves
\* forward and an absent releaseDate stays absent.  Hence after any calls
\* releaseDate is the minimum of the loaded releaseDate and the dates applied.
C7_ReleaseDateTightening ==
    /\ call.op = "update_with" =>
         LET old == OptGet(call.before.data, "releaseDate")
             new == OptGet(releases[1].data, "releaseDate")
         IN  IF old = <<>> THEN new = <<>>
             ELSE IF call.date < old[1]
             THEN new = <<call.date>> /\ releases[1].updated
             ELSE new = old
    /\ (pc = "cycle" /\ Has(loaded[1], "releaseDate")) =>
         OptGet(releases[1].data, "releaseDate") =
            <<Earliest({loaded[1]["releaseDate"]}
                       \cup { calls[k][2] : k \in 1..Len(calls) })>>

\* C7 witness: the release date 2024-06-01 was tightened to 2024-05-01 and a
\* later observation of 2024-06-15 left it there
C7_Witness ==
    /\ call.op = "update_with"
    /\ OptGet(loaded[1], "releaseDate") = <<fromisoformat(d2024_06_01).date>>
    /\ Len(calls) = 2
    /\ calls[1][2] = fromisoformat(d2024_05_01).date
    /\ calls[2][2] = fromisoformat(d2024_06_15).date
    /\ OptGet(releases[1].data, "releaseDate") = <<fromisoformat(d2024_05_01).date>>

----------------------------------------------------------------------------
(* Specification of update_product for one product: the product file holds *)
(* any of the records below, the feed file is missing or holds any feed of  *)
(* at most MaxFeed entries.  The feed is a mapping; the order in which the  *)
(* loop meets its keys is the order of the file, which is arbitrary, so the *)
(* loop takes any key it has not met yet.                                   *)

v1_1_2 == <<"1", ".", "1", ".", "2">>
v2_0 == <<"2", ".", "0">>
v10_0 == <<"1", "0", ".", "0">>

\* 1.1 and 1.1.2 belong to both cycles below, 1.10 to cycle 1 only, 2.0 and
\* 10.0 to none; 1.1-x belongs to both and is not a version
FeedVersions == {v1_1, v1_1_2, v1_10, v2_0, v10_0, v1_1_x}

\* a date that does not exist: fromisoformat raises ValueError
d2024_02_30 == <<"2", "0", "2", "4", "-", "0", "2", "-", "3", "0">>

d2024_06_30 == <<"2", "0", "2", "4", "-", "0", "6", "-", "3", "0">>

FeedDates == {d2024_05_01, d2024_06_15, d2024_02_30}

d2024_05_30 == <<"2", "0", "2", "4", "-", "0", "5", "-", "3", "0">>
d2024_05_31 == <<"2", "0", "2", "4", "-", "0", "5", "-", "3", "1">>

\* the dates the clock gives when the report reads it: on 2024-06-30 the two
\* feed dates are 60 and 15 days old, on 2024-05-31 they are 30 days old and
\* 15 days ahead, on 2024-05-30 29 days old and 16 days ahead
Todays ==
    { fromisoformat(d).date : d \in {d2024_05_30, d2024_05_31, d2024_06_30} }

\* the feeds: mappings from at most MaxFeed versions to date strings
Feeds ==
    UNION { [keys -> FeedDates] :
              keys \in { ks \in SUBSET FeedVersions : Cardinality(ks) <= MaxFeed } }

\* the product files: cycle 1.1 declared before cycle 1
ProductRecords ==
    { <<a, b>> :
        a \in { CycleRecord(v1_1, rd, l[1], l[2]) :
                  rd \in {<<>>, <<fromisoformat(d2024_06_01).date>>},
                  l \in { <<<<>>, <<>>>>,
                          <<<<v1_1>>, <<fromisoformat(d2024_06_15).date>>>>,
                          <<<<v1_1_x>>, <<fromisoformat(d2024_05_01).date>>>> } },
        b \in { CycleRecord(<<"1">>, <<>>, <<>>, <<>>),
                CycleRecord(<<"1">>, <<fromisoformat(d2024_06_01).date>>,
                            <<v1_10>>, <<fromisoformat(d2024_06_15).date>>) } }

Init ==
    /\ loaded \in ProductRecords
    /\ \/ feed = [exists |-> FALSE, entries |-> <<>>]
       \/ \E entries \in Feeds : feed = [exists |-> TRUE, entries |-> entries]
    /\ today = 0
    /\ pc = "start"
    /\ releases = <<>>
    /\ versions = <<>>
    /\ updated = FALSE
    /\ unmatched_versions = <<>>
    /\ todo = {}
    /\ written = <<>>
    /\ output = {}
    /\ log = [checked |-> FALSE, lines |-> {}]
    /\ call = NoCall
    /\ calls = <<>>
    /\ product_names = <<>>

\* update_product that builds the product before it looks for the feed file
SkipProductAfterLoading ==
    /\ pc = "start"
    /\ ~feed.exists
    /\ releases' = [i \in 1..Len(loaded) |-> ReleaseCycle(loaded[i])]
    /\ pc' = "done"
    /\ UNCHANGED <<versions, updated, unmatched_versions, todo, loaded,
                   written, output, log, feed, today, call, calls, product_names>>

\* update_product when the feed file does not exist: it returns
SkipProduct ==
    /\ pc = "start"
    /\ ~feed.exists
    /\ pc' = "done"
    /\ UNCHANGED <<releases, versions, updated, unmatched_versions, todo, loaded,
                   written, output, log, feed, today, call, calls, product_names>>

\* Product.__init__
LoadProduct ==
    /\ pc = "start"
    /\ feed.exists
    /\ releases' = [i \in 1..Len(loaded) |-> ReleaseCycle(loaded[i])]
    /\ versions' = feed.entries
    /\ updated' = FALSE
    /\ unmatched_versions' = <<>>
    /\ todo' = DOMAIN feed.entries
    /\ pc' = "loop"
    /\ UNCHANGED <<loaded, written, output, log, feed, today, call, calls, product_names>>

\* a turn of the loop that catches the ValueError and goes on with the next
\* entry
ProcessVersionCatching ==
    /\ pc = "loop"
    /\ \E version \in todo :
         LET date_str == versions[version]
             date == fromisoformat(date_str)
             before == [releases |-> releases, updated |-> updated,
                        unmatched_versions |-> unmatched_versions]
             after == process_version(before, version, date.date)
         IN  /\ todo' = todo \ {version}
             /\ pc' = pc
             /\ call' = [op |-> "process_version", version |-> version,
                         date_str |-> date_str, before |-> before,
                         raised |-> "none"]
             /\ IF date.ok
                THEN /\ releases' = after.releases
                     /\ updated' = after.updated
                     /\ unmatched_versions' = after.unmatched_versions
                ELSE UNCHANGED <<releases, updated, unmatched_versions>>
    /\ UNCHANGED <<versions, loaded, written, output, log, feed, today, calls,
                   product_names>>

\* one turn of the loop of update_product: Product.process_version, which
\* ends update_product with a ValueError when date_str is no date
ProcessVersion ==
    /\ pc = "loop"
    /\ \E version \in todo :
         LET date_str == versions[version]
             date == fromisoformat(date_str)
             before == [releases |-> releases, updated |-> updated,
                        unmatched_versions |-> unmatched_versions]
             after == process_version(before, version, date.date)
         IN  /\ todo' = todo \ {version}
             /\ IF date.ok
                THEN /\ releases' = after.releases
                     /\ updated' = after.updated
                     /\ unmatched_versions' = after.unmatched_versions
                     /\ pc' = pc
                     /\ call' = [op |-> "process_version", version |-> version,
                                 date_str |-> date_str, before |-> before,
                                 raised |-> "none"]
                ELSE /\ pc' = "raised"
                     /\ call' = [op |-> "process_version", version |-> version,
                                 date_str |-> date_str, before |-> before,
                                 raised |-> "ValueError"]
                     /\ UNCHANGED <<releases, updated, unmatched_versions>>
    /\ UNCHANGED <<versions, loaded, written, output, log, feed, today, calls, product_names>>

\* product.check_latest(), after the loop
CheckLatest ==
    /\ pc = "loop"
    /\ todo = {}
    /\ log' = [checked |-> TRUE, lines |-> check_latest(releases, versions)]
    /\ pc' = "write"
    /\ UNCHANGED <<releases, versions, updated, unmatched_versions, todo, loaded,
                   written, output, feed, today, call, calls, product_names>>

\* if product.updated: product.write()
WriteProduct ==
    /\ pc = "write"
    /\ written' = IF updated THEN Append(written, write(releases)) ELSE written
    /\ pc' = "report"
    /\ UNCHANGED <<releases, versions, updated, unmatched_versions, todo, loaded,
                   output, log, feed, today, call, calls, product_names>>

\* the report of the unmatched versions of the last 30 days; the clock is
\* read in the loop, so only when there is an unmatched version
ReportUnmatched ==
    /\ pc = "report"
    /\ IF DOMAIN unmatched_versions = {}
       THEN UNCHANGED <<output, today>>
       ELSE \E now \in Todays :
               /\ today' = now
               /\ output' = recent_unmatched(unmatched_versions, now)
    /\ pc' = "done"
    /\ UNCHANGED <<releases, versions, updated, unmatched_versions, todo, loaded,
                   written, log, feed, call, calls, product_names>>

Next ==
    \/ SkipProduct
    \/ LoadProduct
    \/ ProcessVersion
    \/ CheckLatest
    \/ WriteProduct
    \/ ReportUnmatched

Spec == Init /\ [][Next]_vars

\* the feed has been processed to its end: update_product is past its loop
FeedProcessed == pc \in {"write", "report", "done"} /\ feed.exists

\* C8: process_observation(version, date) calls update_with on exactly the
\* cycles that include the version, on each of them when several do, and so
\* sets matched there; iff no cycle includes it, (version, date) is recorded in
\* unmatchedVersions under the version and no cycle is changed.  Once the
\* whole feed is processed the keys of unmatchedVersions are the feed versions
\* no cycle includes, and matched is true exactly of the cycles that include
\* some feed version.
C8_DispatchAndUnmatched ==
    /\ (call.op = "process_version" /\ call.raised = "none") =>
         LET version == call.version
             date == fromisoformat(call.date_str).date
             old == call.before
             matching == { i \in 1..Len(old.releases) :
                             includes(old.releases[i], version) }
         IN  /\ Len(releases) = Len(old.releases)
             /\ \A i \in 1..Len(releases) :
                  IF i \in matching
                  THEN /\ releases[i] = update_with(old.releases[i], version, date)
                       /\ releases[i].matched
                  ELSE releases[i] = old.releases[i]
             /\ IF matching = {}
                THEN /\ unmatched_versions =
                          Put(old.unmatched_versions, version, date)
                     /\ releases = old.releases
                ELSE unmatched_versions = old.unmatched_versions
    /\ FeedProcessed =>
         /\ DOMAIN unmatched_versions =
              { v \in DOMAIN versions :
                  \A i \in 1..Len(releases) : ~includes(releases[i], v) }
         /\ \A i \in 1..Len(releases) :
              releases[i].matched <=>
                 \E v \in DOMAIN versions : includes(releases[i], v)

\* C8 witness: at the end of a feed with 1.1.2, which both cycles include,
\* and 2.0, which none includes
C8_Witness ==
    /\ pc = "done"
    /\ DOMAIN versions = {v1_1_2, v2_0}
    /\ releases[1].matched /\ releases[2].matched
    /\ OptGet(releases[1].data, "latest") = <<v1_1_2>>
    /\ OptGet(releases[2].data, "latest") = <<v1_1_2>>
    /\ DOMAIN unmatched_versions = {v2_0}

\* C9: the product's updated flag is never reset once true, and after every
\* process_observation call it is true iff some owned cycle's updated flag is.
C9_ProductUpdated ==
    /\ [](updated <=> \E i \in 1..Len(releases) : releases[i].updated)
    /\ [][updated => updated']_vars

\* C9 witness: the flag was set by an earlier observation, and the last one
\* was given to a cycle and changed nothing
C9_Witness ==
    /\ call.op = "process_version"
    /\ call.raised = "none"
    /\ call.before.updated
    /\ updated
    /\ releases = [i \in 1..Len(releases) |->
                     [call.before.releases[i] EXCEPT !.matched = releases[i].matched]]
    /\ \E i \in 1..Len(releases) : includes(releases[i], call.version)
    /\ \E i \in 1..Len(releases) : ~releases[i].updated

\* a cycle whose releaseDate, latest or latestReleaseDate is not the loaded one
Changed(i) ==
    \E k \in {"releaseDate", "latest", "latestReleaseDate"} :
        OptGet(releases[i].data, k) # OptGet(loaded[i], k)

\* C10: the record is written at most once, only after every feed entry has
\* been processed and the consistency check has run, and, when update_product
\* has run to its end, iff some cycle's releaseDate, latest or
\* latestReleaseDate differs from the loaded one.
C10_WriteIffChanged ==
    /\ Len(written) <= 1
    /\ written # <<>> =>
         /\ pc \in {"report", "done"}
         /\ todo = {}
         /\ log.checked
         /\ written[1] = write(releases)
         /\ \E i \in 1..Len(releases) : Changed(i)
    /\ (pc \in {"report", "done"} /\ feed.exists) =>
         (written # <<>> <=> \E i \in 1..Len(releases) : Changed(i))

\* C10 witness: a run to the end that wrote the record once, only the release
\* date of a cycle having changed
C10_Witness ==
    /\ pc = "done"
    /\ Len(written) = 1
    /\ \E i \in 1..Len(releases) :
         /\ OptGet(releases[i].data, "releaseDate") # OptGet(loaded[i], "releaseDate")
    /\ \A i \in 1..Len(releases) :
         LatestPair(releases[i].data) = LatestPair(loaded[i])

\* the whole number of days from the date of an unmatched version to the
\* date the report read from the clock
Age(version) == today - unmatched_versions[version]

\* the feed versions that no cycle of the product includes
NotIncluded ==
    { v \in DOMAIN versions :
        \A i \in 1..Len(releases) : ~includes(releases[i], v) }

\* C11: after a product's feed is processed and the report made, every
\* unmatched observation whose date is within the 30 days before the current
\* date is in the report output, none that is older than the window is, and
\* all of them are still in unmatchedVersions, each with its date; nothing
\* else is in the output.  With now = 2024-06-30 an observation of 2024-06-15
\* is reported and one of 2024-05-01 is not.  The product's updated flag plays
\* no part.
C11_RecencyFilter ==
    (pc = "done" /\ feed.exists) =>
        /\ DOMAIN unmatched_versions = NotIncluded
        /\ \A v \in DOMAIN unmatched_versions :
             /\ unmatched_versions[v] = fromisoformat(versions[v]).date
             /\ (Age(v) >= 0 /\ Age(v) < 30) =>
                    <<v, unmatched_versions[v]>> \in output
             /\ Age(v) > 30 => <<v, unmatched_versions[v]>> \notin output
             /\ (today = fromisoformat(d2024_06_30).date
                 /\ versions[v] = d2024_06_15) =>
                    <<v, unmatched_versions[v]>> \in output
             /\ (today = fromisoformat(d2024_06_30).date
                 /\ versions[v] = d2024_05_01) =>
                    <<v, unmatched_versions[v]>> \notin output
        /\ \A line \in output :
             /\ line[1] \in DOMAIN unmatched_versions
             /\ line[2] = unmatched_versions[line[1]]

\* C11 witness: on 2024-06-30, a product that was not updated and whose feed
\* held 2.0 and 10.0, one of 2024-06-15 and one of 2024-05-01: two unmatched
\* versions, the recent one reported, the old one not, both kept
C11_Witness ==
    /\ pc = "done"
    /\ ~updated
    /\ written = <<>>
    /\ today = fromisoformat(d2024_06_30).date
    /\ \E v, w \in DOMAIN unmatched_versions :
         /\ versions[v] = d2024_06_15
         /\ versions[w] = d2024_05_01
         /\ output = {<<v, unmatched_versions[v]>>}

\* C19: an unmatched observation is reported iff the whole number of days
\* from its date to the current date is strictly less than 30: one that is
\* exactly 30 days old is not reported, one that is 29 days old is, and one
\* dated after the current date is.
C19_RecencyBoundary ==
    (pc = "done" /\ feed.exists) =>
        \A v \in DOMAIN unmatched_versions :
            LET reported == \E line \in output : line[1] = v
            IN  /\ reported <=> Age(v) < 30
                /\ Age(v) = 30 => ~reported
                /\ Age(v) = 29 => reported
                /\ Age(v) < 0 => reported

\* C19 witness: the clock gave 2024-05-31; the unmatched version of
\* 2024-05-01, 30 days old, is not reported and the one of 2024-06-15, 15
\* days ahead, is
C19_Witness ==
    /\ pc = "done"
    /\ today = fromisoformat(d2024_05_31).date
    /\ \E v, w \in DOMAIN unmatched_versions :
         /\ Age(v) = 30
         /\ Age(w) = 0 - 15
         /\ output = {<<w, unmatched_versions[w]>>}

\* a state C19 needs as well: the clock gave 2024-05-30 and a version 29 days
\* old was reported
C19_Witness29 ==
    /\ pc = "done"
    /\ \E v \in DOMAIN unmatched_versions :
         Age(v) = 29 /\ <<v, unmatched_versions[v]>> \in output

\* the cycle was warned about by the consistency check
Warned(i) == \E line \in log.lines : line[1] = releases[i].name

\* C14: check_consistency warns about exactly the cycles that were matched at
\* least once during the run and whose recorded latest is not a key of the
\* feed, never about an unmatched cycle, and it changes no cycle field, no
\* matched or updated flag, not the product's updated flag and not
\* unmatchedVersions; so the record is written iff it would have been.
C14_CheckIsDiagnostic ==
    /\ [](log.checked =>
            \A i \in 1..Len(releases) :
                /\ Warned(i) <=>
                      /\ releases[i].matched
                      /\ \/ ~Has(releases[i].data, "latest")
                         \/ releases[i].data["latest"] \notin DOMAIN versions
                /\ ~releases[i].matched => ~Warned(i))
    /\ [][(~log.checked /\ log'.checked) =>
            /\ UNCHANGED <<releases, updated, unmatched_versions, versions,
                           written, output>>
            /\ pc' = "write"]_vars
    /\ [][(pc = "write" /\ pc' # pc) => (written' # written <=> updated)]_vars

\* C14 witness: the check has run over a matched cycle whose latest, 1.10, is
\* not in the feed, and over a matched cycle whose latest is; it warned about
\* the first only
C14_Witness ==
    /\ pc = "done"
    /\ log.checked
    /\ DOMAIN versions = {v1_1_2}
    /\ releases[1].matched /\ releases[2].matched
    /\ releases[2].data["latest"] = v1_10
    /\ Warned(2) /\ ~Warned(1)

\* the fields reconciliation may change
ReconciledFields == {"releaseDate", "latest", "latestReleaseDate"}

\* record `data` is record `old` but for the fields reconciliation may change
SameButReconciled(data, old) ==
    /\ DOMAIN data \ ReconciledFields = DOMAIN old \ ReconciledFields
    /\ \A k \in DOMAIN old \ ReconciledFields : data[k] = old[k]

\* C15: no sequence of process_observation and check_consistency calls adds,
\* removes or reorders the product's cycles: the sequence of cycle names stays
\* that of the loaded record, and within each cycle only releaseDate, latest
\* and latestReleaseDate can change, releaseCycle and every other field
\* keeping the loaded value.  The same is true of the record that is written.
C15_ReconciliationFrame ==
    (feed.exists /\ pc # "start") =>
        /\ Len(releases) = Len(loaded)
        /\ \A i \in 1..Len(loaded) :
             /\ releases[i].name = loaded[i]["releaseCycle"]
             /\ releases[i].data["releaseCycle"] = loaded[i]["releaseCycle"]
             /\ SameButReconciled(releases[i].data, loaded[i])
        /\ \A w \in 1..Len(written) :
             /\ Len(written[w]) = Len(loaded)
             /\ \A i \in 1..Len(loaded) :
                  SameButReconciled(written[w][i], loaded[i])

\* C15 witness: at the end of a run that changed latest in both cycles and
\* tightened a release date, and wrote the record
C15_Witness ==
    /\ pc = "done"
    /\ Len(written) = 1
    /\ \A i \in 1..Len(releases) :
         OptGet(releases[i].data, "latest") # OptGet(loaded[i], "latest")
    /\ \E i \in 1..Len(releases) :
         OptGet(releases[i].data, "releaseDate") # OptGet(loaded[i], "releaseDate")
    /\ \A i \in 1..Len(releases) : Has(releases[i].data, "eol")

\* C17: after every entry of a feed (its version keys are unique) has been
\* processed, in any order, every cycle whose recorded latest is a key of the
\* feed and is included by that cycle has the feed's date for that version as
\* its latestReleaseDate.
C17_FeedAgreement ==
    FeedProcessed =>
        \A i \in 1..Len(releases) :
            ( /\ Has(releases[i].data, "latest")
              /\ releases[i].data["latest"] \in DOMAIN versions
              /\ includes(releases[i], releases[i].data["latest"]) ) =>
                OptGet(releases[i].data, "latestReleaseDate") =
                    <<fromisoformat(versions[releases[i].data["latest"]]).date>>

\* C17 witness: the cycle was loaded with latest 1.1 of 2024-06-15, the feed
\* gives 2024-05-01 for 1.1 and holds a second entry, and at the end of the
\* run the cycle has latest 1.1 with the feed's date
C17_Witness ==
    /\ pc = "done"
    /\ LatestPair(loaded[1]) = <<<<v1_1>>, <<fromisoformat(d2024_06_15).date>>>>
    /\ Cardinality(DOMAIN versions) = 2
    /\ v1_1 \in DOMAIN versions
    /\ versions[v1_1] = d2024_05_01
    /\ LatestPair(releases[1].data) =
          <<<<v1_1>>, <<fromisoformat(d2024_05_01).date>>>>

\* C18: the record of a product is written only after all of its feed entries
\* were processed without error; when processing an entry fails (its date
\* string is not an ISO date) the cycles in memory may have been changed by
\* earlier entries, but the write step is not reached and the persisted
\* record keeps its loaded content.
C18_NoPartialWrite ==
    /\ written # <<>> =>
         /\ todo = {}
         /\ \A v \in DOMAIN versions : fromisoformat(versions[v]).ok
         /\ pc \notin {"loop", "raised"}
    /\ (call.op = "process_version" /\ call.raised # "none") =>
         /\ pc = "raised"
         /\ written = <<>>
         /\ ~log.checked
         /\ ~ENABLED WriteProduct
    /\ (pc = "loop" /\ \E v \in todo : ~fromisoformat(versions[v]).ok) =>
         ~ENABLED CheckLatest

\* C18 witness: the second entry of the feed failed after the first had
\* changed a cycle in memory; nothing was written
C18_Witness ==
    /\ pc = "raised"
    /\ call.raised = "ValueError"
    /\ updated
    /\ \E i \in 1..Len(releases) : Changed(i)
    /\ written = <<>>

\* the recorded latest of the cycle is a string that is not a version
UnparseableLatest(data) ==
    Has(data, "latest") /\ ~Version(data["latest"]).valid

\* C16: once the recorded latest of a cycle is a string that does not parse
\* as a version (loaded so, or adopted because no latest was recorded), no
\* later update_with with another version string, parseable or not, changes
\* latest or latestReleaseDate, and none raises; an observation with the
\* identical string still sets the date.  So for a cycle loaded without a
\* latest the outcome depends on the first observation: if it does not parse
\* it stays the latest for ever, if it parses the latest always parses.
C16_StickyUnparseable ==
    /\ [](call.op = "update_with" /\ UnparseableLatest(call.before.data) =>
            /\ call.raised = "none"
            /\ releases[1].data["latest"] = call.before.data["latest"]
            /\ IF call.version = call.before.data["latest"]
               THEN OptGet(releases[1].data, "latestReleaseDate") = <<call.date>>
               ELSE LatestPair(releases[1].data) = LatestPair(call.before.data))
    /\ [][UnparseableLatest(releases[1].data) =>
            releases'[1].data["latest"] = releases[1].data["latest"]]_vars
    /\ []((pc = "cycle" /\ ~Has(loaded[1], "latest") /\ Len(calls) > 0) =>
            IF Version(calls[1][1]).valid
            THEN Version(releases[1].data["latest"]).valid
            ELSE releases[1].data["latest"] = calls[1][1])

\* C16 witness: a cycle loaded with latest 1.x was given 1.1-x, which does
\* not parse either, then 1.10 and 1.1, which do, with other dates: its
\* latest is still 1.x with the loaded date
C16_Witness ==
    /\ pc = "cycle"
    /\ LatestPair(loaded[1]) = <<<<v1_x>>, <<fromisoformat(d2024_05_01).date>>>>
    /\ Len(calls) = 3
    /\ calls[1] = <<v1_1_x, fromisoformat(d2024_06_15).date>>
    /\ calls[2] = <<v1_10, fromisoformat(d2024_06_15).date>>
    /\ calls[3][1] = v1_1
    /\ LatestPair(releases[1].data) = LatestPair(loaded[1])

\* a state C16 needs as well: a cycle loaded without a latest was given 1.1-x
\* first, then 1.10, then 1.1-x again with another date: its latest is 1.1-x
\* with the date of the third call
C16_WitnessAdopted ==
    /\ pc = "cycle"
    /\ ~Has(loaded[1], "latest")
    /\ Len(calls) = 3
    /\ calls[1][1] = v1_1_x
    /\ calls[2][1] = v1_10
    /\ calls[3][1] = v1_1_x
    /\ calls[3][2] # calls[1][2]
    /\ LatestPair(releases[1].data) = <<<<v1_1_x>>, <<calls[3][2]>>>>

----------------------------------------------------------------------------
(* Specification of the main program: update_product is called for the     *)
(* products of the product directory, one after the other.  Each element of *)
(* product_names stands for a name and the two files of that name.  The     *)
(* history variables tell of the product being processed.                   *)

\* the number of products of a run
MaxProducts == 2

\* the product file of the products below
MainRecord ==
    << CycleRecord(v1_1, <<fromisoformat(d2024_06_01).date>>, <<v1_1>>,
                   <<fromisoformat(d2024_06_15).date>>),
       CycleRecord(<<"1">>, <<>>, <<>>, <<>>) >>

\* the feed files of the products below: none; one that updates both cycles
\* and leaves a version unmatched; one whose only date is no date; one with a
\* date that is no date and an entry that changes a cycle
MainFeeds ==
    { [exists |-> FALSE, entries |-> <<>>],
      [exists |-> TRUE,
       entries |-> Put(Put(<<>>, v1_1_2, d2024_06_15), v2_0, d2024_06_15)],
      [exists |-> TRUE, entries |-> Put(<<>>, v1_1_2, d2024_02_30)],
      [exists |-> TRUE,
       entries |-> Put(Put(<<>>, v1_1, d2024_05_01), v1_10, d2024_02_30)] }

MainProducts == { [loaded |-> MainRecord, feed |-> f] : f \in MainFeeds }

InitMain ==
    /\ product_names \in
         UNION { [1..n -> MainProducts] : n \in 1..MaxProducts }
    /\ pc = "main"
    /\ loaded = <<>>
    /\ feed = [exists |-> FALSE, entries |-> <<>>]
    /\ today = 0
    /\ releases = <<>>
    /\ versions = <<>>
    /\ updated = FALSE
    /\ unmatched_versions = <<>>
    /\ todo = {}
    /\ written = <<>>
    /\ output = {}
    /\ log = [checked |-> FALSE, lines |-> {}]
    /\ call = NoCall
    /\ calls = <<>>

\* a turn of the loop of the main program: update_product is called for the
\* next name, the call before it having returned
MainNextProduct ==
    /\ pc \in {"main", "done"}
    /\ product_names # <<>>
    /\ loaded' = Head(product_names).loaded
    /\ feed' = Head(product_names).feed
    /\ product_names' = Tail(product_names)
    /\ pc' = "start"
    /\ releases' = <<>>
    /\ versions' = <<>>
    /\ updated' = FALSE
    /\ unmatched_versions' = <<>>
    /\ todo' = {}
    /\ written' = <<>>
    /\ output' = {}
    /\ log' = [checked |-> FALSE, lines |-> {}]
    /\ call' = NoCall
    /\ UNCHANGED <<today, calls>>

\* the exception raised in update_product leaves it, and the loop and the
\* with statement of the main program, which have no handler: the program ends
MainRaise ==
    /\ pc = "raised"
    /\ pc' = "aborted"
    /\ UNCHANGED <<releases, versions, updated, unmatched_versions, todo, loaded,
                   written, output, log, feed, today, call, calls, product_names>>

NextMain ==
    \/ MainNextProduct
    \/ MainRaise
    \/ SkipProduct
    \/ LoadProduct
    \/ ProcessVersion
    \/ CheckLatest
    \/ WriteProduct
    \/ ReportUnmatched

SpecMain == InitMain /\ [][NextMain]_vars

\* C12 as stated: the run always completes, and a failure while a product is
\* processed (here a feed date that is no ISO date) ends the processing of
\* that product only: whenever the processing of a product is over, by a return
\* or by a failure, and products are left, the loop takes the next one; so
\* the run ends only when every product has been reached.
C12_FailureIsolation ==
    (pc \in {"main", "done", "aborted"} /\ product_names # <<>>) =>
        ENABLED MainNextProduct

\* the state that refutes C12: the run was ended by the ValueError of a
\* product and the product after it was never reached
C12_RunAborted ==
    /\ pc = "aborted"
    /\ call.raised = "ValueError"
    /\ product_names # <<>>
    /\ ~ENABLED MainNextProduct
    /\ ~ENABLED MainRaise

\* C13: when no feed exists for a product the driver skips it without error:
\* the product record is not loaded, no observation is processed, no
\* consistency check runs, nothing is written and nothing is reported for
\* it, and the run goes on with the next product.
C13_MissingFeedSkipped ==
    /\ [](~feed.exists =>
            /\ pc \in {"main", "start", "done"}
            /\ releases = <<>>
            /\ versions = <<>>
            /\ todo = {}
            /\ DOMAIN unmatched_versions = {}
            /\ call = NoCall
            /\ ~log.checked
            /\ written = <<>>
            /\ output = {}
            /\ (pc = "done" /\ product_names # <<>>) => ENABLED MainNextProduct)
    /\ [][(pc = "start" /\ ~feed.exists) => pc' = "done"]_vars

\* C13 witness: update_product has returned for a product without a feed and
\* a product is left for the loop
C13_Witness ==
    /\ pc = "done"
    /\ ~feed.exists
    /\ loaded # <<>>
    /\ releases = <<>>
    /\ product_names # <<>>
====
